---- MODULE Spec2Model ----
(***************************************************************************)
(* Model of tools/svd2regs.py: the rendering of a CMSIS-SVD device model   *)
(* (peripherals, registers, fields, enumerated values) as Tock register    *)
(* bindings.  Text is a sequence of one-character strings; the generated   *)
(* code is the sequence of the blocks the templates produce, each block a  *)
(* record of the template's fields.                                        *)
(***************************************************************************)
EXTENDS Integers, Sequences, FiniteSets, TLC

VARIABLES dev, names, pc, selected, code, exc, saved

vars == <<dev, names, pc, selected, code, exc, saved>>

(***************************************************************************)
(* Text                                                                    *)
(***************************************************************************)
LOWER == <<"a","b","c","d","e","f","g","h","i","j","k","l","m",
           "n","o","p","q","r","s","t","u","v","w","x","y","z">>

UPPER == <<"A","B","C","D","E","F","G","H","I","J","K","L","M",
           "N","O","P","Q","R","S","T","U","V","W","X","Y","Z">>

DIGITS == <<"0","1","2","3","4","5","6","7","8","9">>

HEXDIGITS == DIGITS \o <<"A","B","C","D","E","F">>

Range(s) == { s[i] : i \in DOMAIN s }

IndexIn(c, s) == CHOOSE i \in DOMAIN s : s[i] = c

IsLower(c) == c \in Range(LOWER)

IsUpper(c) == c \in Range(UPPER)

IsCased(c) == IsLower(c) \/ IsUpper(c)

IsDigit(c) == c \in Range(DIGITS)

\* str.lower() and str.upper() on one character
LowerChar(c) == IF IsUpper(c) THEN LOWER[IndexIn(c, UPPER)] ELSE c

UpperChar(c) == IF IsLower(c) THEN UPPER[IndexIn(c, LOWER)] ELSE c

\* str.lower()
Lower(s) == [i \in DOMAIN s |-> LowerChar(s[i])]

\* str.title(): a cased character is upper-cased when the character before
\* it is not cased, and lower-cased otherwise
Title(s) ==
    [i \in DOMAIN s |->
        IF i > 1 /\ IsCased(s[i - 1]) THEN LowerChar(s[i]) ELSE UpperChar(s[i])]

\* str.strip(): leading and trailing blanks removed
RECURSIVE LStrip(_)
LStrip(s) == IF s # <<>> /\ Head(s) = " " THEN LStrip(Tail(s)) ELSE s

RECURSIVE RStrip(_)
RStrip(s) ==
    IF s # <<>> /\ s[Len(s)] = " " THEN RStrip(SubSeq(s, 1, Len(s) - 1)) ELSE s

Strip(s) == RStrip(LStrip(s))

\* "{}".format(n) for a non-negative integer
RECURSIVE Dec(_)
Dec(n) == IF n < 10 THEN <<DIGITS[n + 1]>> ELSE Dec(n \div 10) \o <<DIGITS[(n % 10) + 1]>>

\* "{:X}".format(n) for a non-negative integer
RECURSIVE Hex(_)
Hex(n) ==
    IF n < 16 THEN <<HEXDIGITS[n + 1]>>
    ELSE Hex(n \div 16) \o <<HEXDIGITS[(n % 16) + 1]>>

Rep(c, n) == [i \in 1..n |-> c]

\* a format field of minimum width w: numbers are right-aligned and the
\* fill character of a width without a leading 0 is the blank
PadLeft(s, w) == IF Len(s) >= w THEN s ELSE Rep(" ", w - Len(s)) \o s

RUST_KEYWORDS == { <<"m","o","d">> }

COMMENT_MAX_LENGTH == 80

\* the longest identifier enum_identifier accepts is one shorter than this
IDENTIFIER_LIMIT == 80

\* the width of the address field of the base declaration
BASE_WIDTH == 8

\* the width BitfieldsMacro declares
BITFIELDS_SIZE == 32

Min(a, b) == IF a < b THEN a ELSE b

comment(text) ==
    <<"/", "/", "/", " ">> \o Strip(SubSeq(text, 1, Min(COMMENT_MAX_LENGTH, Len(text))))

(***************************************************************************)
(* Results of the renderers: a value, or the exception that ends the run.  *)
(* The(S) is the element of a one-element set: { F(x) : x \in {e} } is     *)
(* F of the value of e, with e evaluated once.                             *)
(***************************************************************************)
The(S) == CHOOSE x \in S : TRUE

Ok(v) == [k |-> "ok", v |-> v]

\* an exception is its type and the names of the entities its message mentions
Exception(type, mentions) == [type |-> type, mentions |-> mentions]

NoException == Exception("none", {})

Raise(e) == [k |-> "raise", exc |-> e]

Raising(rs) == { i \in DOMAIN rs : rs[i].k = "raise" }

FirstOf(S) == CHOOSE i \in S : \A j \in S : i <= j

\* a join over a generator: the items are rendered in order and the first
\* exception ends the join
Collect(rs) ==
    The({ IF bad # {} THEN rs[FirstOf(bad)] ELSE Ok([i \in DOMAIN rs |-> rs[i].v]) :
          bad \in {Raising(rs)} })

(***************************************************************************)
(* Identifiers                                                             *)
(***************************************************************************)
\* a reserved word is left as it is
field_identifier_plain(name) == Lower(name)

\* PeripheralStructField.fields.identifier
field_identifier(name) ==
    The({ IF identifier \in RUST_KEYWORDS THEN identifier \o <<"_">> ELSE identifier :
          identifier \in {Lower(name)} })

\* the words of a text are its runs of non-blank characters; each word gets
\* its first character upper-cased and the words are concatenated
CamelWords(s) ==
    LET NonBlank(i) == s[i] # " "
        FirstOfWord(i) == i = 1 \/ s[i - 1] = " "
    IN  The({ [n \in DOMAIN kept |->
                 IF FirstOfWord(kept[n]) THEN UpperChar(s[kept[n]]) ELSE s[kept[n]]] :
              kept \in {SelectSeq([i \in 1..Len(s) |-> i], NonBlank)} })

IsValidIdentifier(i) == i # <<>> /\ ~IsDigit(i[1])

\* pydentifier.upper_camel is a library call: for a text that yields no valid
\* identifier the caller gets either the text as derived or the library's
\* error, according to whether the installed library validates (strict)
upper_camel(s, strict) ==
    The({ IF strict /\ ~IsValidIdentifier(i) THEN Raise(Exception("InvalidIdentifier", {})) ELSE Ok(i) :
          i \in {CamelWords(s)} })

None == [k |-> "none"]

\* an identifier of exactly the limit passes
ShortOrEqual(i) == Len(i) <= IDENTIFIER_LIMIT

\* the length test of BitfieldFieldEnum.fields.identifier
Short(i) == Len(i) < IDENTIFIER_LIMIT

StartsWithDigit(desc) == desc # <<>> /\ IsDigit(desc[1])

\* BitfieldFieldEnum.fields.identifier; a candidate is a text or an integer,
\* and an integer has no startswith
identifier(t, strict) ==
    IF t.ty = "int" THEN Raise(Exception("AttributeError", {}))
    ELSE The({ IF i.k = "raise" THEN i ELSE IF Short(i.v) THEN i ELSE None :
               i \in { upper_camel(IF StartsWithDigit(t.s) THEN <<"_">> \o t.s ELSE t.s,
                                   strict) } })

\* the candidates of an enumerated value in the order they are tried
Candidates(e) ==
    << [ty |-> "str", s |-> e.description],
       [ty |-> "str", s |-> e.name],
       [ty |-> "int", n |-> e.value] >>

RECURSIVE TryFrom(_, _, _)
TryFrom(cands, n, strict) ==
    IF n > Len(cands) THEN None
    ELSE The({ IF i.k = "raise" THEN i
               ELSE IF i.k = "ok" /\ i.v # <<>> THEN i
               ELSE TryFrom(cands, n + 1, strict) :
               i \in {identifier(cands[n], strict)} })

\* BitfieldFieldEnum.fields.enum_identifier
enum_identifier(e, strict) == TryFrom(Candidates(e), 1, strict)

(***************************************************************************)
(* Renderers                                                               *)
(***************************************************************************)
Includes == [t |-> "includes"]

\* "{}".format(None)
NoneText == <<"N","o","n","e">>

BitfieldFieldEnum(enum, strict) ==
    The({ IF i.k = "raise" THEN i
          ELSE Ok([ comment |-> comment(enum.description),
                    name    |-> IF i.k = "none" THEN NoneText ELSE i.v,
                    value   |-> Dec(enum.value) ]) :
          i \in {enum_identifier(enum, strict)} })

RECURSIVE Dedup(_, _)
Dedup(rest, values) ==
    IF rest = <<>> THEN values
    ELSE IF Head(rest).description \notin { values[i].description : i \in DOMAIN values }
         THEN Dedup(Tail(rest), Append(values, Head(rest)))
         ELSE Dedup(Tail(rest), values)

\* no value is dropped
enumerated_values_all(field) == field.enumerated_values

\* BitfieldField.enumerated_values
enumerated_values(field) == Dedup(field.enumerated_values, <<>>)

BitfieldField(field, strict) ==
    The({ IF enums.k = "raise" THEN enums
          ELSE Ok([ comment |-> comment(field.description),
                    name    |-> field.name,
                    offset  |-> field.bit_offset,
                    size    |-> field.bit_width,
                    enums   |-> enums.v ]) :
          enums \in { IF ~field.is_enumerated_type THEN Ok(<<>>)
                      ELSE The({ Collect([i \in DOMAIN evs |->
                                               BitfieldFieldEnum(evs[i], strict)]) :
                                 evs \in {enumerated_values(field)} }) } })

Bitfield(register, strict) ==
    The({ IF fields.k = "raise" THEN fields
          ELSE Ok([ name |-> register.name, fields |-> fields.v ]) :
          fields \in { Collect([i \in DOMAIN register.fields |->
                                  BitfieldField(register.fields[i], strict)]) } })

BitfieldsMacro(registers, strict) ==
    The({ IF bitfields.k = "raise" THEN bitfields
          ELSE Ok([ t |-> "register_bitfields",
                    size |-> BITFIELDS_SIZE,
                    bitfields |-> bitfields.v ]) :
          bitfields \in { Collect([i \in DOMAIN registers |->
                                     Bitfield(registers[i], strict)]) } })

mode_map ==
    [ a \in {"read-only", "read-write", "write-only"} |->
        CASE a = "read-only"  -> "ReadOnly"
          [] a = "read-write" -> "ReadWrite"
          [] a = "write-only" -> "WriteOnly" ]

RegisterSuffix == <<":",":","R","e","g","i","s","t","e","r">>

\* PeripheralStructField.fields.definition
definition(reg) ==
    IF Len(reg.fields) = 1 THEN <<>>
    ELSE <<",", " ">> \o reg.name \o RegisterSuffix

PeripheralStructField(register) ==
    [ comment    |-> comment(register.description),
      name       |-> field_identifier(register.name),
      size       |-> register.size,
      mode       |-> mode_map[register.access],
      definition |-> definition(register) ]

RegistersSuffix == <<"R","e","g","i","s","t","e","r","s">>

PeripheralStruct(peripheral) ==
    [ t       |-> "struct",
      comment |-> comment(peripheral.description),
      name    |-> Title(peripheral.name) \o RegistersSuffix,
      fields  |-> [i \in DOMAIN peripheral.registers |->
                      PeripheralStructField(peripheral.registers[i])] ]

PeripheralBaseDeclaration(peripheral) ==
    [ t     |-> "base",
      name  |-> peripheral.name \o <<"_","B","A","S","E">>,
      type  |-> Title(peripheral.name) \o RegistersSuffix,
      base  |-> <<"0", "x">> \o PadLeft(Hex(peripheral.base_address), BASE_WIDTH) ]

generate_peripheral_struct(peripheral) == PeripheralStruct(peripheral)

generate_bitfields_macro(registers, strict) == BitfieldsMacro(registers, strict)

MultiField(r) == Len(r.fields) > 1

\* the three blocks of a peripheral, in the order they are concatenated
generate_peripherial(peripheral, strict) ==
    The({ IF macro.k = "raise" THEN macro
          ELSE Ok(<< generate_peripheral_struct(peripheral),
                     macro.v,
                     PeripheralBaseDeclaration(peripheral) >>) :
          macro \in { generate_bitfields_macro(
                          SelectSeq(peripheral.registers, MultiField), strict) } })

\* the prelude, then the peripherals' blocks in the order of the argument
generate(peripherals, strict) ==
    The({ IF ps.k = "raise" THEN ps ELSE Ok(<<Includes>> \o ps.v) :
          ps \in { Collect([i \in DOMAIN peripherals |->
                              generate_peripherial(peripherals[i], strict)]) } })

\* the peripherals in the order they are requested
parse_by_request(peripherals, device) ==
    IF peripherals = <<>> THEN device
    ELSE LET Named(n) == { i \in DOMAIN device : device[i].name = n }
             Found(n) == Named(n) # {}
             found == SelectSeq(peripherals, Found)
         IN  [k \in DOMAIN found |-> device[CHOOSE i \in Named(found[k]) : TRUE]]

\* parse, after the device is loaded
parse(peripherals, device) ==
    LET wanted == IF peripherals = <<>>
                  THEN { device[i].name : i \in DOMAIN device }
                  ELSE Range(peripherals)
        Wanted(p) == p.name \in wanted
    IN  SelectSeq(device, Wanted)

(***************************************************************************)
(* The inputs: the devices the loader hands over and the names requested   *)
(* on the command line.                                                    *)
(***************************************************************************)
MaxPeripherals == 3

MaxNames == 2

MaxRegisters == 2

MaxFields == 2

MaxEnums == 2

\* the sequences over S of length at most n
SeqsUpTo(S, n) == UNION { [1..m -> S] : m \in 0..n }

\* the sequences of SeqsUpTo(S, n) that name nothing twice
Distinct(s) == \A i, j \in DOMAIN s : i # j => s[i].name # s[j].name

UART0 == <<"U","A","R","T","0">>

UART1 == <<"U","A","R","T","1">>

GPIO == <<"G","P","I","O">>

GPIOX == <<"G","P","I","O","X">>

I2C0 == <<"i","2","c","0">>

Field(name, offset, enumerated, evs) ==
    [ name |-> name, description |-> <<" ","f","i","e","l","d"," ">>,
      bit_offset |-> offset, bit_width |-> 1,
      is_enumerated_type |-> enumerated, enumerated_values |-> evs ]

FieldNames == << <<"E","N">>, <<"m","o","d">>, <<"M","O","D","E">>, <<"R","d","y">> >>

\* the first n fields of a register, none of them enumerated
PlainFields(n) == [i \in 1..n |-> Field(FieldNames[i], i - 1, FALSE, <<>>)]

Register(name, size, access, fields) ==
    [ name |-> name, description |-> <<"a"," ","r","e","g","i","s","t","e","r">>,
      size |-> size, access |-> access, fields |-> fields ]

Peripheral(name, base, registers) ==
    [ name |-> name, description |-> <<"a"," ","p","e","r","i","p","h","e","r","a","l">>,
      base_address |-> base, registers |-> registers ]

\* devices for the selection of peripherals: each peripheral has its own
\* base address and one register of two fields
SelPeripherals ==
    { Peripheral(UART0, 1073741824,
                 <<Register(<<"C","T","R","L">>, 32, "read-write", PlainFields(2))>>),
      Peripheral(UART1, 1073745920,
                 <<Register(<<"C","T","R","L">>, 32, "read-write", PlainFields(2))>>),
      Peripheral(GPIO, 4096,
                 <<Register(<<"D","A","T","A">>, 32, "read-only", PlainFields(1))>>) }

SelDevices == { d \in SeqsUpTo(SelPeripherals, MaxPeripherals) : Distinct(d) }

SelNames == SeqsUpTo({UART0, UART1, GPIO, GPIOX}, MaxNames)

\* devices of one peripheral, for the registers: every name, width and number
\* of fields, and base addresses of fewer than and of eight hexadecimal digits
RegisterNames == { <<"C","T","R","L">>, <<"M","O","D">>, <<"s","t","a","t">> }

AccessOf(name) ==
    CASE name = <<"C","T","R","L">> -> "read-write"
      [] name = <<"M","O","D">>  -> "read-only"
      [] OTHER -> "write-only"

Registers ==
    { Register(n, sz, AccessOf(n), PlainFields(k)) :
        n \in RegisterNames, sz \in {16, 32}, k \in 0..MaxFields }

RegDevices ==
    { <<Peripheral(n, b, rs)>> :
        n \in {GPIO, I2C0}, b \in {4096, 1073741824},
        rs \in { r \in SeqsUpTo(Registers, MaxRegisters) : Distinct(r) } }

\* devices of one peripheral and one register of two fields, the second of
\* them enumerated
Blank == <<" ">>

Long80 == Rep("a", 80)

Words79 == Rep("a", 40) \o <<" ">> \o Rep("b", 39)

Descriptions == { <<"F","a","s","t">>, <<"1"," ","m","h","z">>, Blank, Long80, Words79 }

EnumNames == { <<"s","l","o","w">>, Long80 }

EnumeratedValues ==
    { [ name |-> n, description |-> d, value |-> v ] :
        n \in EnumNames, d \in Descriptions, v \in {3, 10} }

EnumFields ==
    { Field(<<"M","O","D","E">>, 1, TRUE, evs) : evs \in SeqsUpTo(EnumeratedValues, MaxEnums) }
    \cup { Field(<<"M","O","D","E">>, 1, FALSE, <<>>) }

EnumDevices ==
    { <<Peripheral(GPIO, 1073741824,
          <<Register(<<"C","T","R","L">>, 32, "read-write", <<PlainFields(1)[1], f>>)>>)>> :
        f \in EnumFields }

(***************************************************************************)
(* main                                                                    *)
(***************************************************************************)
Init ==
    /\ \/ dev \in SelDevices /\ names \in SelNames
       \/ dev \in RegDevices \cup EnumDevices /\ names = <<>>
    /\ pc = "main"
    /\ selected = <<>>
    /\ code = <<>>
    /\ exc = NoException
    /\ saved = <<>>

\* parse(args.peripherals, args.mcu, args.svd)
Parse ==
    /\ pc = "main"
    /\ selected' = parse(names, dev)
    /\ pc' = "parsed"
    /\ UNCHANGED <<dev, names, code, exc, saved>>

\* code = generate(...): the code, or the exception that ends main
Generate ==
    /\ pc = "parsed"
    /\ \E strict \in BOOLEAN :
       \E r \in {generate(selected, strict)} :
              IF r.k = "raise"
              THEN /\ pc' = "raised"
                   /\ exc' = r.exc
                   /\ code' = code
              ELSE /\ pc' = "generated"
                   /\ code' = r.v
                   /\ exc' = exc
    /\ UNCHANGED <<dev, names, selected, saved>>

\* args.save.write(code); args.fmt is not given
Write ==
    /\ pc = "generated"
    /\ saved' = code
    /\ pc' = "done"
    /\ UNCHANGED <<dev, names, selected, code, exc>>

Next == Parse \/ Generate \/ Write

Spec == Init /\ [][Next]_vars

(***************************************************************************)
(* Reading the generated code                                              *)
(***************************************************************************)
Produced == pc \in {"generated", "done"}

Ended == pc \in {"generated", "done", "raised"}

\* the blocks of the n-th rendered peripheral
Rendering(n) == code[n + 1]

BlocksOf(n, t) == { b \in Range(Rendering(n)) : b.t = t }

\* the k-th smallest element of a set of numbers
Kth(S, k) == CHOOSE i \in S : Cardinality({ j \in S : j < i }) = k - 1

RECURSIVE ParseDec(_)
ParseDec(s) ==
    IF s = <<>> THEN 0
    ELSE 10 * ParseDec(SubSeq(s, 1, Len(s) - 1)) + (IndexIn(s[Len(s)], DIGITS) - 1)

RECURSIVE ParseHex(_)
ParseHex(s) ==
    IF s = <<>> THEN 0
    ELSE 16 * ParseHex(SubSeq(s, 1, Len(s) - 1)) + (IndexIn(s[Len(s)], HEXDIGITS) - 1)

DeviceNames == { dev[i].name : i \in DOMAIN dev }

\* the positions in the device of the peripherals the request selects
WantedIdx == { i \in DOMAIN dev : names = <<>> \/ dev[i].name \in Range(names) }

\* the registers of a peripheral that have more than one field, by position
MultiIdx(p) == { i \in DOMAIN p.registers : Len(p.registers[i].fields) > 1 }

\* the name a struct member's definition refers to
RefName(d) == SubSeq(d, 3, Len(d) - Len(RegisterSuffix))

\* C1: a requested name that is not a peripheral of the device makes the
\* run fail with an error that mentions the name, and no code is returned
C1_MissingNameFails ==
    \A n \in Range(names) :
        (Ended /\ n \notin DeviceNames) => (pc = "raised" /\ n \in exc.mentions)

\* C3: the code is the prelude followed by one struct, bitfields and base
\* rendering per selected peripheral, in the order of the device
C3_SelectionInDeviceOrder ==
    Produced =>
        /\ code[1] = Includes
        /\ Len(code) = 1 + Cardinality(WantedIdx)
        /\ \A k \in 1..Cardinality(WantedIdx) :
              LET p == dev[Kth(WantedIdx, k)]
                  r == Rendering(k)
              IN  /\ Len(r) = 3
                  /\ r[1].t = "struct"
                  /\ r[1].name = Title(p.name) \o RegistersSuffix
                  /\ Len(r[1].fields) = Len(p.registers)
                  /\ r[2].t = "register_bitfields"
                  /\ r[3].t = "base"
                  /\ r[3].name = p.name \o <<"_","B","A","S","E">>

\* two of three peripherals are requested in the reverse of their order in
\* the device, and both are rendered
C3_Witness ==
    /\ pc = "done"
    /\ Len(dev) = 3
    /\ Len(names) = 2
    /\ names[1] = dev[3].name
    /\ names[2] = dev[1].name
    /\ Len(saved) = 3

(***************************************************************************)
(* Enumerated values                                                       *)
(***************************************************************************)
\* the fields that are rendered: peripheral n of the selection, its register
\* r of more than one field, the register's field f
FieldsRendered ==
    UNION { UNION { { <<n, r, f>> : f \in DOMAIN selected[n].registers[r].fields } :
                    r \in MultiIdx(selected[n]) } : n \in DOMAIN selected }

EnumFieldsRendered ==
    { x \in FieldsRendered :
        selected[x[1]].registers[x[2]].fields[x[3]].is_enumerated_type }

FieldAt(x) == selected[x[1]].registers[x[2]].fields[x[3]]

\* the rendering of the field in the bitfield block of its register
FieldRendering(x) ==
    Rendering(x[1])[2].bitfields[
        Cardinality({ j \in MultiIdx(selected[x[1]]) : j <= x[2] })].fields[x[3]]

\* the positions of the values no earlier value shares its description with
FirstIdx(evs) ==
    { k \in DOMAIN evs : \A m \in 1..(k - 1) : evs[m].description # evs[k].description }

\* the identifier a text derives, and whether it passes the filter
Derived(text) == CamelWords(IF StartsWithDigit(text) THEN <<"_">> \o text ELSE text)

Usable(text) == Derived(text) # <<>> /\ Len(Derived(text)) < IDENTIFIER_LIMIT

\* C2: when neither the description nor the name of a retained enumerated
\* value derives a usable identifier, and its integer value derives none,
\* the run fails with an error that mentions the peripheral, the register and
\* the field; and no variant is emitted with an empty or placeholder name
C2_UnrenderableFailsExplicitly ==
    Ended =>
        \A x \in EnumFieldsRendered :
            /\ \A k \in FirstIdx(FieldAt(x).enumerated_values) :
                  LET e == FieldAt(x).enumerated_values[k]
                  IN  (~Usable(e.description) /\ ~Usable(e.name)) =>
                          /\ pc = "raised"
                          /\ { selected[x[1]].name,
                               selected[x[1]].registers[x[2]].name,
                               FieldAt(x).name } \subseteq exc.mentions
            /\ Produced =>
                  \A v \in DOMAIN FieldRendering(x).enums :
                      FieldRendering(x).enums[v].name \notin {<<>>, NoneText}

\* C4: the variants of an enumerated field are the first occurrences of the
\* descriptions, in order, each with the value of that occurrence
C4_FirstOccurrences ==
    Produced =>
        \A x \in EnumFieldsRendered :
            LET evs   == FieldAt(x).enumerated_values
                first == FirstIdx(evs)
                out   == FieldRendering(x).enums
            IN  /\ Len(out) = Cardinality(first)
                /\ Len(out) = Cardinality({ evs[k].description : k \in DOMAIN evs })
                /\ \A v \in DOMAIN out :
                      /\ out[v].comment = comment(evs[Kth(first, v)].description)
                      /\ ParseDec(out[v].value) = evs[Kth(first, v)].value

\* two values share a description and differ in value; one variant is
\* written, with the value of the first
C4_Witness ==
    /\ pc = "done"
    /\ \E x \in EnumFieldsRendered :
          LET evs == FieldAt(x).enumerated_values
          IN  /\ Len(evs) = 2
              /\ evs[1].description = evs[2].description
              /\ evs[1].value # evs[2].value
              /\ Len(FieldRendering(x).enums) = 1
              /\ ParseDec(FieldRendering(x).enums[1].value) = evs[1].value

\* C8: the name of an emitted variant is the identifier derived from the
\* description when that is usable, and else the one derived from the name,
\* which is then usable; the integer value is the third candidate and no
\* variant is emitted from it
C8_FirstUsableCandidate ==
    Produced =>
        \A x \in EnumFieldsRendered :
            LET evs   == FieldAt(x).enumerated_values
                first == FirstIdx(evs)
                out   == FieldRendering(x).enums
            IN  \A v \in DOMAIN out :
                    LET e == evs[Kth(first, v)]
                    IN  IF Usable(e.description)
                        THEN out[v].name = Derived(e.description)
                        ELSE Usable(e.name) /\ out[v].name = Derived(e.name)

\* a description of 80 characters is passed over for the name, and a
\* description that starts with a digit gets the underscore
C8_Witness ==
    /\ pc = "done"
    /\ \E x \in EnumFieldsRendered :
          LET evs == FieldAt(x).enumerated_values
              out == FieldRendering(x).enums
          IN  /\ Len(out) = 2
              /\ evs[1].description = Long80
              /\ out[1].name = Derived(evs[1].name)
              /\ StartsWithDigit(evs[2].description)
              /\ out[2].name = <<"_","1","M","h","z">>

(***************************************************************************)
(* Registers                                                               *)
(***************************************************************************)
\* a struct member of the n-th rendered peripheral
Member(n, r) == Rendering(n)[1].fields[r]

\* the positions of the blocks of kind t in the n-th rendering
Positions(n, t) == { j \in DOMAIN Rendering(n) : Rendering(n)[j].t = t }

\* the names of the bitfield blocks emitted for the n-th peripheral
BlockNames(n) ==
    UNION { { b.bitfields[k].name : k \in DOMAIN b.bitfields } :
            b \in BlocksOf(n, "register_bitfields") }

\* a lower-cased name with the marker after a reserved word
Escaped(l) == IF l \in RUST_KEYWORDS THEN l \o <<"_">> ELSE l

\* C5: a struct member refers to a bitfield block exactly when its register
\* has more than one field, and every block referred to is emitted
C5_ReferenceIffMultiField ==
    Produced =>
        \A n \in DOMAIN selected : \A r \in DOMAIN selected[n].registers :
            /\ (Member(n, r).definition # <<>>) <=> (r \in MultiIdx(selected[n]))
            /\ Member(n, r).definition # <<>> =>
                  RefName(Member(n, r).definition) \in BlockNames(n)

\* C6: a peripheral with a register of more than one field has one bitfields
\* container, between the struct and the base declaration, that lists the
\* blocks of exactly those registers in order; another peripheral has none
C6_ContainerOnlyWhenNeeded ==
    Produced =>
        \A n \in DOMAIN selected :
            LET multi == MultiIdx(selected[n])
            IN  IF multi = {} THEN Positions(n, "register_bitfields") = {}
                ELSE /\ Positions(n, "struct") = {1}
                     /\ Positions(n, "register_bitfields") = {2}
                     /\ Positions(n, "base") = {3}
                     /\ Len(Rendering(n)[2].bitfields) = Cardinality(multi)
                     /\ \A k \in 1..Cardinality(multi) :
                           Rendering(n)[2].bitfields[k].name
                               = selected[n].registers[Kth(multi, k)].name

\* C7: a peripheral has one base declaration; its address is 0x and then
\* hexadecimal digits that denote the base address, and its type is the
\* struct the peripheral declares
C7_BaseAddressLiteral ==
    Produced =>
        \A n \in DOMAIN selected :
            /\ Cardinality(Positions(n, "base")) = 1
            /\ \A j \in Positions(n, "base") :
                  LET b      == Rendering(n)[j]
                      digits == SubSeq(b.base, 3, Len(b.base))
                  IN  /\ SubSeq(b.base, 1, 2) = <<"0", "x">>
                      /\ digits # <<>>
                      /\ Range(digits) \subseteq Range(HEXDIGITS)
                      /\ ParseHex(digits) = selected[n].base_address
                      /\ \A i \in Positions(n, "struct") : b.type = Rendering(n)[i].name

C10_WidthsAgree ==
    Produced =>
        \A n \in DOMAIN selected : \A r \in DOMAIN selected[n].registers :
            /\ Member(n, r).size = selected[n].registers[r].size
            /\ r \in MultiIdx(selected[n]) =>
                  \A b \in BlocksOf(n, "register_bitfields") :
                      (\E k \in DOMAIN b.bitfields :
                          b.bitfields[k].name = selected[n].registers[r].name)
                      => b.size = selected[n].registers[r].size

====
